---- MODULE Spec2Model ----
(***************************************************************************)
(* The todo HTTP service of axum-api: five request handlers over one       *)
(* `todos` relation, reached through a shared sqlx connection pool.        *)
(* Every request is a task that runs its handler up to the next await      *)
(* point in one step; the steps of different requests interleave.          *)
(***************************************************************************)
EXTENDS Integers, Sequences, FiniteSets, TLC

\* ---------------------------------------------------------------- bounds
\* Requests issued in a run of the general specification.
NumClients == 2
\* Rows the relation may hold when the service starts.
MaxInitialRows == 1
\* Requests issued in a run of the pool specification (more than the pool holds).
NumPoolClients == 6
\* How many of them are updates.
NumPoolUpdates == 1

\* ------------------------------------------------------- program constants
\* db.rs: PgPoolOptions::new().max_connections(5)
MaxConnections == 5

\* ------------------------------------------------------------ value domains
\* Option<T>: None is the empty sequence, Some(v) the one-element sequence.
None == <<>>
Some(v) == <<v>>

\* Option::unwrap_or
UnwrapOr(opt, default) == IF opt = None THEN default ELSE opt[1]

\* The last segment of the request path. A negative segment stands for text
\* that is no UUID; 0 is a well-formed UUID the server never generated;
\* 1, 2, ... are the UUIDs the server generated, in order of generation.
BadSegment == 0 - 1
UnusedUuid == 0

\* Titles a client sends in a create body: absent, empty, or text.
CreateTitles == {None, Some(""), Some("a")}
\* Fields a client sends in an update body.
UpdateTitles == {None, Some("c")}
UpdateCompleted == {None, Some(TRUE)}

Kinds == {"list", "create", "get", "delete", "update"}

\* The response a client has before the server answered.
NoResponse == [status |-> 0, msg |-> "", todos |-> <<>>]

VARIABLES
    todos,      \* the rows of the `todos` relation
    now,        \* the store's clock
    uuids,      \* how many UUIDs Uuid::new_v4 has produced
    inUse,      \* connections checked out of the pool
    pc,         \* per request: where its task stands
    req,        \* per request: what the client sent
    existing,   \* per request: update_todo's local `existing`
    resp,       \* per request: what the client received
    err,        \* per request: the Err its data access returned, if any
    calls,      \* per request: data-access operations started
    callTime,   \* per request: the clock when the request was issued
    writes,     \* per UUID: UPDATE and DELETE statements that changed its row
    readVer,    \* per request: writes[id] when it read the row
    writeVer,   \* per request: writes[id] once its UPDATE changed the row
    waited,     \* per request: whether a query of it had to wait for a connection
    main        \* the process: where main() stands, what it found, its pool

vars == <<todos, now, uuids, inUse, pc, req, existing, resp, err, calls,
          callTime, writes, readVer, writeVer, waited, main>>

\* ------------------------------------------------------------ the relation
\* models.rs: struct Todo
Todo(id, title, completed, created_at) ==
    [id |-> id, title |-> title, completed |-> completed, created_at |-> created_at]

\* Column default of `completed` (the schema is not part of the sources).
DefaultCompleted == FALSE

\* Column default of `created_at`: the store's clock at insertion.
DefaultCreatedAt(clock) == clock

\* SELECT * FROM todos WHERE id = $1
SelectById(rows, id) == {t \in rows : t.id = id}

\* fetch_optional of that SELECT: None, or Some(the row)
FetchOptional(rows, id) ==
    IF SelectById(rows, id) = {} THEN None
    ELSE Some(CHOOSE t \in SelectById(rows, id) : TRUE)

\* Mutant: the title is not bound; the row gets an empty one.
InsertRowUntitled(id, title, clock) ==
    Todo(id, "", DefaultCompleted, DefaultCreatedAt(clock))

\* Insert into todos(id, title) values ($1, $2) returning *
InsertRow(id, title, clock) ==
    Todo(id, title, DefaultCompleted, DefaultCreatedAt(clock))

\* Mutant: the WHERE clause is missing.
DeleteAll(rows, id) == {}

\* DELETE FROM todos WHERE id = $1
DeleteById(rows, id) == rows \ SelectById(rows, id)

\* Mutant: the UPDATE also stamps the row (SET ..., created_at = created_at + 1).
UpdateRowStamping(t, title, completed) ==
    [t EXCEPT !.title = title, !.completed = completed, !.created_at = @ + 1]

\* UPDATE todos SET title = $1, completed = $2 WHERE id = $3 RETURNING *
UpdateRow(t, title, completed) ==
    [t EXCEPT !.title = title, !.completed = completed]

\* Mutant: the UPDATE stores the new version of the row beside the old one.
UpdateByIdKeeping(rows, id, title, completed) ==
    rows \cup {UpdateRow(t, title, completed) : t \in SelectById(rows, id)}

UpdateById(rows, id, title, completed) ==
    {IF t.id = id THEN UpdateRow(t, title, completed) ELSE t : t \in rows}

\* Mutant: ORDER BY created_at, ascending.
CreatedAtAsc(a, b) == a.created_at <= b.created_at

\* ORDER BY created_at DESC, on positions i before j
CreatedAtDesc(a, b) == a.created_at >= b.created_at

\* SELECT * FROM todos ORDER BY created_at DESC: every order of the rows the
\* sort key allows (rows of equal created_at come in either order).
SelectAllOrdered(rows) ==
    {s \in [1..Cardinality(rows) -> rows] :
        /\ \A i, j \in 1..Cardinality(rows) : i # j => s[i] # s[j]
        /\ \A i, j \in 1..Cardinality(rows) : i < j => CreatedAtDesc(s[i], s[j])}

\* ------------------------------------------------------------- extractors
\* Path<Uuid>: the path segment parses as a UUID or the request is rejected.
PathUuid(segment) == IF segment >= 0 THEN Some(segment) ELSE None

\* Json<CreateTodo>: `title: String` is required; any string is accepted.
JsonCreateTodo(title) == title # None

\* The status of the extractors' rejection of request q, 0 when they accept it.
Rejection(q) ==
    CASE q.kind = "list" -> 0
      [] q.kind = "create" -> IF JsonCreateTodo(q.title) THEN 0 ELSE 422
      [] OTHER -> IF PathUuid(q.path) = None THEN 400 ELSE 0

\* -------------------------------------------------------------- responses
Json(status, rows) == [status |-> status, msg |-> "", todos |-> rows]
Text(status, msg) == [status |-> status, msg |-> msg, todos |-> <<>>]
\* .unwrap() on Err: the task panics and the client gets no response.
Panicked == [status |-> 0, msg |-> "panicked", todos |-> <<>>]

\* Mutant: update_todo reports both of its failures with one message.
OnErrOneMessage(kind, at) ==
    CASE kind = "delete" -> Text(200, "Deleted")
      [] kind = "update" -> Text(500, "database error")
      [] OTHER -> Panicked

\* Mutant: delete_todo reports the store's failure to the caller.
OnErrDeleteReports(kind, at) ==
    CASE kind = "delete" -> Text(500, "database error")
      [] kind = "update" /\ at = "fetch" -> Text(500, "database error")
      [] kind = "update" /\ at = "write" -> Text(500, "Update failed")
      [] OTHER -> Panicked

\* Mutant: update_todo reports a failed UPDATE as the row's absence.
OnErrWriteAsNotFound(kind, at) ==
    CASE kind = "delete" -> Text(200, "Deleted")
      [] kind = "update" /\ at = "fetch" -> Text(500, "database error")
      [] kind = "update" /\ at = "write" -> Text(404, "Task not found")
      [] OTHER -> Panicked

\* What each handler makes of an Err from its data access.
\* list_todos, create_todo, get_todo: .unwrap(); delete_todo: `let _ =`;
\* update_todo: map_err on the read and on the write.
OnErr(kind, at) ==
    CASE kind = "delete" -> Text(200, "Deleted")
      [] kind = "update" /\ at = "fetch" -> Text(500, "database error")
      [] kind = "update" /\ at = "write" -> Text(500, "Update failed")
      [] OTHER -> Panicked

\* Mutant: absence is reported as an internal error.
OnNoneAsError(kind) == Text(500, "database error")

\* What get_todo and update_todo make of Ok(None): StatusCode::NOT_FOUND, and
\* (StatusCode::NOT_FOUND, "Task not found").
OnNone(kind) == IF kind = "update" THEN Text(404, "Task not found") ELSE Text(404, "")

\* Mutant: unwrap_or_default() in place of unwrap_or(existing.title).
MergeTitleOrDefault(q, row) == UnwrapOr(q.title, "")

\* update_todo's merge of the payload over the row it read.
MergeTitle(q, row) == UnwrapOr(q.title, row.title)
MergeCompleted(q, row) == UnwrapOr(q.completed, row.completed)

\* ------------------------------------------------------------------- pool
\* Mutant: the connection is not given back.
Leak(n) == n

Checkout(n) == n + 1
Release(n) == n - 1

\* ------------------------------------------------------------------ state
Requests == DOMAIN pc

\* The i-th row an earlier run of the service left in the relation: created
\* at instant i, the later ones renamed and completed since.
InitialRow(i) == Todo(i, IF i = 1 THEN "a" ELSE "b", i > 1, i)
InitialRows(n) == {InitialRow(i) : i \in 1..n}

\* main() at `at`, started with DATABASE_URL set or not and the store
\* reachable or not, holding `pool`.
Main(at, databaseUrl, reachable, pool) ==
    [at |-> at, databaseUrl |-> databaseUrl, reachable |-> reachable, pool |-> pool]

\* Mutant: the pool is built without connecting (connect_lazy).
GetDbPoolLazy(databaseUrl, reachable) ==
    IF databaseUrl THEN Some("pool") ELSE None

\* get_db_pool: env::var("DATABASE_URL").expect(..), then
\* connect(..).await.expect(..); None stands for the panic of either.
GetDbPool(databaseUrl, reachable) ==
    IF databaseUrl /\ reachable THEN Some("pool") ELSE None

\* main() once axum::serve runs, on the pool get_db_pool returned.
Serving == Main("serving", TRUE, TRUE, GetDbPool(TRUE, TRUE))

InitWith(clients, n, m) ==
    /\ main = m
    /\ todos = InitialRows(n)
    /\ now = n
    /\ uuids = n
    /\ inUse = 0
    /\ pc = [r \in clients |-> "idle"]
    /\ req = [r \in clients |->
                [kind |-> "list", path |-> UnusedUuid, title |-> None, completed |-> None]]
    /\ existing = [r \in clients |-> None]
    /\ resp = [r \in clients |-> NoResponse]
    /\ err = [r \in clients |-> "none"]
    /\ calls = [r \in clients |-> 0]
    /\ callTime = [r \in clients |-> 0]
    /\ writes = [i \in 0..(n + Cardinality(clients)) |-> 0]
    /\ readVer = [r \in clients |-> 0]
    /\ writeVer = [r \in clients |-> 0]
    /\ waited = [r \in clients |-> FALSE]

\* The pool is built and the service starts, on whatever rows the relation
\* holds by then.
Init == \E n \in 0..MaxInitialRows : InitWith(1..NumClients, n, Serving)

\* The same, with more clients than the pool has connections and one row.
InitPool == InitWith(1..NumPoolClients, 1, Serving)

\* The process starts: main() is entered, with DATABASE_URL set or not (after
\* dotenv) and the store reachable or not.
InitMain ==
    \E n \in 0..MaxInitialRows, databaseUrl \in BOOLEAN, reachable \in BOOLEAN :
        InitWith(1..NumClients, n, Main("start", databaseUrl, reachable, None))

\* ---------------------------------------------------------------- clients
\* The path segments a client can send: junk, a UUID of its own making, or a
\* UUID the server has handed out.
Segments == {BadSegment, UnusedUuid} \cup 1..uuids

\* The request waits for a connection: for its first query, or (update_todo)
\* for its UPDATE.
Waiting(r) == pc[r] \in {"recv", "merged"}

Executing(r) == pc[r] \in {"fetch", "write"}

\* Mutant: the pool hands a connection out whatever the number checked out.
FreeUncapped(n) == TRUE

\* A query gets a connection at once when fewer than max_connections are
\* checked out and no earlier query is waiting for one (the pool serves its
\* waiters first).
Free(n) == n < MaxConnections /\ \A p \in Requests : ~Waiting(p)

\* The extractors reject the request; the handler never runs.
Rejected(q) == Text(Rejection(q), "rejected")

\* A request arrives and its task runs to its first await: the extractors
\* reject it, or the handler starts its first query, which takes a connection
\* if one is free and waits for one otherwise. Requests take the slots in
\* order; every arrival is a later instant of the store's clock.
Issue(r, kind, path, title, completed) ==
    LET q == [kind |-> kind, path |-> path, title |-> title, completed |-> completed]
    IN /\ main.at = "serving"
       /\ pc[r] = "idle"
       /\ \A p \in Requests : p < r => pc[p] # "idle"
       /\ now' = now + 1
       /\ callTime' = [callTime EXCEPT ![r] = now + 1]
       /\ req' = [req EXCEPT ![r] = q]
       /\ IF Rejection(q) # 0
          THEN /\ pc' = [pc EXCEPT ![r] = "done"]
               /\ resp' = [resp EXCEPT ![r] = Rejected(q)]
               /\ UNCHANGED <<inUse, calls>>
          ELSE /\ resp' = resp
               /\ calls' = [calls EXCEPT ![r] = @ + 1]
               /\ IF Free(inUse)
                  THEN /\ pc' = [pc EXCEPT ![r] = "fetch"]
                       /\ inUse' = Checkout(inUse)
                  ELSE /\ pc' = [pc EXCEPT ![r] = "recv"]
                       /\ inUse' = inUse
       /\ waited' = [waited EXCEPT ![r] = Rejection(q) = 0 /\ ~Free(inUse)]
       /\ UNCHANGED <<main, todos, uuids, existing, err, writes, readVer, writeVer>>

IssueList(r) == Issue(r, "list", UnusedUuid, None, None)
IssueCreate(r) == \E title \in CreateTitles : Issue(r, "create", UnusedUuid, title, None)
IssueGet(r) == \E path \in Segments : Issue(r, "get", path, None, None)
IssueDelete(r) == \E path \in Segments : Issue(r, "delete", path, None, None)
IssueUpdate(r) ==
    \E path \in Segments, title \in UpdateTitles, completed \in UpdateCompleted :
        Issue(r, "update", path, title, completed)

\* --------------------------------------------------------------- handlers
\* A waiting query takes a connection once one is free.
Acquire(r) ==
    /\ Waiting(r)
    /\ inUse < MaxConnections
    /\ inUse' = Checkout(inUse)
    /\ pc' = [pc EXCEPT ![r] = IF pc[r] = "recv" THEN "fetch" ELSE "write"]
    /\ UNCHANGED <<main, todos, now, uuids, req, existing, resp, err, calls, callTime,
                   writes, readVer, writeVer, waited>>

\* The request ends with response `out`, giving its connection back.
Finish(r, out) ==
    /\ resp' = [resp EXCEPT ![r] = out]
    /\ pc' = [pc EXCEPT ![r] = "done"]
    /\ inUse' = Release(inUse)

\* list_todos
ListTodos(r) ==
    /\ pc[r] = "fetch" /\ req[r].kind = "list"
    /\ \E rows \in SelectAllOrdered(todos) : Finish(r, Json(200, rows))
    /\ UNCHANGED <<main, todos, now, uuids, req, existing, err, calls, callTime, writes,
                   readVer, writeVer, waited>>

\* create_todo
CreateTodo(r) ==
    /\ pc[r] = "fetch" /\ req[r].kind = "create"
    /\ uuids' = uuids + 1
    /\ todos' = todos \cup {InsertRow(uuids + 1, req[r].title[1], now)}
    /\ Finish(r, Json(200, <<InsertRow(uuids + 1, req[r].title[1], now)>>))
    /\ UNCHANGED <<main, now, req, existing, err, calls, callTime, writes, readVer,
                   writeVer, waited>>

\* get_todo
GetTodo(r) ==
    /\ pc[r] = "fetch" /\ req[r].kind = "get"
    /\ Finish(r, IF FetchOptional(todos, req[r].path) = None
                 THEN OnNone("get")
                 ELSE Json(200, FetchOptional(todos, req[r].path)))
    /\ readVer' = IF FetchOptional(todos, req[r].path) = None THEN readVer
                  ELSE [readVer EXCEPT ![r] = writes[req[r].path]]
    /\ UNCHANGED <<main, todos, now, uuids, req, existing, err, calls, callTime, writes,
                   writeVer, waited>>

\* delete_todo
DeleteTodo(r) ==
    /\ pc[r] = "fetch" /\ req[r].kind = "delete"
    /\ todos' = DeleteById(todos, req[r].path)
    /\ writes' = IF SelectById(todos, req[r].path) = {} THEN writes
                 ELSE [writes EXCEPT ![req[r].path] = @ + 1]
    /\ Finish(r, Text(200, "Deleted"))
    /\ UNCHANGED <<main, now, uuids, req, existing, err, calls, callTime, readVer,
                   writeVer, waited>>

\* Mutant: update_todo keeps the connection of its read while its UPDATE asks
\* the pool for one.
KeepRead(n) == n

\* update_todo's SELECT has ended: its connection goes back to the pool
\* before the UPDATE asks for one.
ReleaseRead(n) == Release(n)

\* Mutant: update_todo goes on to its UPDATE whatever its read returned.
FoundAlways(opt) == TRUE

\* update_todo's `match existing`: Some(todo) goes on, None returns.
Found(opt) == opt # None

\* update_todo, from the end of its read to its next await: not found, or
\* the merge is made and the UPDATE started, on a connection if one is free.
UpdateTodoRead(r) ==
    /\ pc[r] = "fetch" /\ req[r].kind = "update"
    /\ existing' = [existing EXCEPT ![r] = FetchOptional(todos, req[r].path)]
    /\ IF ~Found(FetchOptional(todos, req[r].path))
       THEN /\ resp' = [resp EXCEPT ![r] = OnNone("update")]
            /\ pc' = [pc EXCEPT ![r] = "done"]
            /\ inUse' = Release(inUse)
            /\ UNCHANGED <<readVer, calls, waited>>
       ELSE /\ readVer' = [readVer EXCEPT ![r] = writes[req[r].path]]
            /\ calls' = [calls EXCEPT ![r] = @ + 1]
            /\ IF Free(ReleaseRead(inUse))
               THEN /\ pc' = [pc EXCEPT ![r] = "write"]
                    /\ inUse' = Checkout(ReleaseRead(inUse))
                    /\ UNCHANGED waited
               ELSE /\ pc' = [pc EXCEPT ![r] = "merged"]
                    /\ inUse' = ReleaseRead(inUse)
                    /\ waited' = [waited EXCEPT ![r] = TRUE]
            /\ UNCHANGED resp
    /\ UNCHANGED <<main, todos, now, uuids, req, err, callTime, writes, writeVer>>

\* Mutant: the merge is made over the row as it is when the UPDATE runs, as
\* one atomic statement would make it.
Reread(r) == CHOOSE t \in todos : t.id = req[r].path

\* The row update_todo merges the payload over: `existing`, the row it read.
Existing(r) == existing[r][1]

\* update_todo's UPDATE ... RETURNING *, fetched with fetch_one: no row to
\* return is Err(RowNotFound).
UpdateTodoWrite(r) ==
    /\ pc[r] = "write"
    /\ LET id == req[r].path
           title == MergeTitle(req[r], Existing(r))
           completed == MergeCompleted(req[r], Existing(r))
       IN IF SelectById(todos, id) = {}
          THEN /\ Finish(r, OnErr("update", "write"))
               /\ err' = [err EXCEPT ![r] = "norow"]
               /\ UNCHANGED <<todos, writes, writeVer>>
          ELSE /\ todos' = UpdateById(todos, id, title, completed)
               /\ writes' = [writes EXCEPT ![id] = @ + 1]
               /\ writeVer' = [writeVer EXCEPT ![r] = writes[id] + 1]
               /\ Finish(r, Json(200, FetchOptional(todos', id)))
               /\ UNCHANGED err
    /\ UNCHANGED <<main, now, uuids, req, existing, calls, callTime, readVer, waited>>

\* The store fails the statement a request is executing: the statement has
\* no effect and the handler gets Err.
StoreError(r) ==
    /\ Executing(r)
    /\ err' = [err EXCEPT ![r] = "store"]
    /\ Finish(r, OnErr(req[r].kind, pc[r]))
    /\ UNCHANGED <<main, todos, now, uuids, req, existing, calls, callTime, writes,
                   readVer, writeVer, waited>>

\* The pool gives up on a request that waited for a connection while all were
\* checked out (PgPoolOptions' acquire timeout, left at its default): the
\* query returns Err(PoolTimedOut) without having held a connection.
PoolTimeout(r) ==
    /\ Waiting(r)
    /\ inUse >= MaxConnections
    /\ err' = [err EXCEPT ![r] = "pool"]
    /\ resp' = [resp EXCEPT ![r] =
                 OnErr(req[r].kind, IF pc[r] = "recv" THEN "fetch" ELSE "write")]
    /\ pc' = [pc EXCEPT ![r] = "done"]
    /\ UNCHANGED <<main, todos, now, uuids, inUse, req, existing, calls, callTime,
                   writes, readVer, writeVer, waited>>

\* ---------------------------------------------------------- specifications
Next ==
    \/ \E r \in Requests : IssueList(r)
    \/ \E r \in Requests : IssueCreate(r)
    \/ \E r \in Requests : IssueGet(r)
    \/ \E r \in Requests : IssueDelete(r)
    \/ \E r \in Requests : IssueUpdate(r)
    \/ \E r \in Requests : ListTodos(r)
    \/ \E r \in Requests : CreateTodo(r)
    \/ \E r \in Requests : GetTodo(r)
    \/ \E r \in Requests : DeleteTodo(r)
    \/ \E r \in Requests : UpdateTodoRead(r)
    \/ \E r \in Requests : UpdateTodoWrite(r)
    \/ \E r \in Requests : StoreError(r)

Spec == Init /\ [][Next]_vars

\* main(): `let pool = get_db_pool().await`; a panic ends the process.
MainGetDbPool ==
    /\ main.at = "start"
    /\ main' = [main EXCEPT
                  !.pool = GetDbPool(main.databaseUrl, main.reachable),
                  !.at = IF GetDbPool(main.databaseUrl, main.reachable) = None
                         THEN "panicked" ELSE "pool"]
    /\ UNCHANGED <<todos, now, uuids, inUse, pc, req, existing, resp, err, calls,
                   callTime, writes, readVer, writeVer, waited>>

\* main(): the router is given the pool and TcpListener::bind(..).await
\* .unwrap() binds port 3000, or panics when the port cannot be bound.
MainBind ==
    /\ main.at = "pool"
    /\ \E bound \in BOOLEAN :
         main' = [main EXCEPT !.at = IF bound THEN "bound" ELSE "panicked"]
    /\ UNCHANGED <<todos, now, uuids, inUse, pc, req, existing, resp, err, calls,
                   callTime, writes, readVer, writeVer, waited>>

\* main(): axum::serve(listener, app)
MainServe ==
    /\ main.at = "bound"
    /\ main' = [main EXCEPT !.at = "serving"]
    /\ UNCHANGED <<todos, now, uuids, inUse, pc, req, existing, resp, err, calls,
                   callTime, writes, readVer, writeVer, waited>>

NextMain ==
    \/ MainGetDbPool
    \/ MainBind
    \/ MainServe
    \/ Next

\* The process from its start.
MainSpec == InitMain /\ [][NextMain]_vars

\* More requests than connections, on a healthy store: the first
\* NumPoolUpdates requests complete the one stored row, the others read it.
IssuePool(r) ==
    IF r <= NumPoolUpdates
    THEN Issue(r, "update", 1, None, Some(TRUE))
    ELSE Issue(r, "get", 1, None, None)

\* The steps the runtime takes for a request that is ready to run.
Progress(r) ==
    \/ Acquire(r)
    \/ GetTodo(r)
    \/ UpdateTodoRead(r)
    \/ UpdateTodoWrite(r)

NextPool ==
    \/ \E r \in Requests : IssuePool(r)
    \/ \E r \in Requests : Acquire(r)
    \/ \E r \in Requests : GetTodo(r)
    \/ \E r \in Requests : UpdateTodoRead(r)
    \/ \E r \in Requests : UpdateTodoWrite(r)
    \/ \E r \in Requests : PoolTimeout(r)

PoolSpec == InitPool /\ [][NextPool]_vars

\* The runtime polls every task that is ready, so while some request can take
\* a step, one is taken. Nothing obliges the pool to time a waiting request
\* out.
FairPoolSpec == PoolSpec /\ WF_vars(\E r \in Requests : Progress(r))

\* ================================================================ properties
\* Shorthands for request r.
Done(r) == pc[r] = "done"
Ok(r) == Done(r) /\ resp[r].status = 200
IsUpdate(r) == req[r].kind = "update" /\ pc[r] # "idle"
\* The row with identifier id (the relation's primary key).
Row(rows, id) == CHOOSE t \in rows : t.id = id

\* Request r's UPDATE statement changes the row in this step.
UpdateWrites(r) == pc[r] = "write" /\ Ok(r)'

\* C1. Partial update preserves omitted fields: when no other writer touched
\* the row between update's read and its write, the row stored and returned
\* has the payload's title if the payload has one and the title held before
\* the update otherwise, and likewise for completed.
C1_PartialUpdatePreservesOmitted ==
    [][\A r \in Requests :
        (UpdateWrites(r) /\ writes[req[r].path] = readVer[r]) =>
            LET old == Row(todos, req[r].path)
                new == Row(todos', req[r].path)
            IN /\ resp'[r].todos = <<new>>
               /\ new.title = IF req[r].title # None THEN req[r].title[1] ELSE old.title
               /\ new.completed = IF req[r].completed # None THEN req[r].completed[1]
                                  ELSE old.completed]_vars

\* An update that set only `completed` has returned a row that kept a title.
C1_Witness ==
    \E r \in Requests :
        /\ Ok(r) /\ IsUpdate(r)
        /\ req[r].title = None /\ req[r].completed = Some(TRUE)
        /\ writeVer[r] = readVer[r] + 1
        /\ resp[r].todos[1].title = "a" /\ resp[r].todos[1].completed

\* Updates a and b of one row raced: both read it before either wrote, a
\* wrote first, b second, and nothing has changed the row since.
Raced(a, b) ==
    /\ a # b /\ IsUpdate(a) /\ IsUpdate(b) /\ Ok(a) /\ Ok(b)
    /\ req[a].path = req[b].path
    /\ readVer[a] = readVer[b]
    /\ writeVer[a] = readVer[a] + 1
    /\ writeVer[b] = readVer[a] + 2
    /\ writes[req[a].path] = writeVer[b]

\* C2. Lost update: when two updates of one row raced and both returned
\* success, a field the first one set and the second one did not holds the
\* stale value the second one had read, not the first update's value.
C2_LostUpdate ==
    \A a, b \in Requests :
        Raced(a, b) =>
            LET row == Row(todos, req[a].path)
            IN /\ (req[a].title # None /\ req[b].title = None) =>
                      row.title = existing[b][1].title
               /\ (req[a].completed # None /\ req[b].completed = None) =>
                      row.completed = existing[b][1].completed

\* Both updates returned success and the first one's title is gone.
C2_Witness ==
    \E a, b \in Requests :
        /\ Raced(a, b)
        /\ req[a].title # None /\ req[a].completed = None
        /\ req[b].title = None /\ req[b].completed # None
        /\ resp[a].todos[1].title = req[a].title[1]
        /\ Row(todos, req[a].path).title # req[a].title[1]

\* Request g is a get of the row that create c returned, answered while no
\* update or delete had touched that row.
GetAfterCreate(c, g) ==
    /\ Ok(c) /\ req[c].kind = "create"
    /\ Done(g) /\ req[g].kind = "get" /\ err[g] = "none"
    /\ req[g].path = resp[c].todos[1].id
    /\ writes[req[g].path] = 0 \/ (Ok(g) /\ readVer[g] = 0)

\* C3. Round trip: a successful create with title t returns a row with an
\* identifier of the server's making (no other create returned it, no other
\* row carries it), title t, completed = false and a created_at not earlier
\* than the call; a following get of that identifier, with no update or
\* delete of it in between, returns the same row.
C3_RoundTrip ==
    \A c \in Requests :
        (Ok(c) /\ req[c].kind = "create") =>
            LET row == resp[c].todos[1]
            IN /\ Len(resp[c].todos) = 1
               /\ row.title = req[c].title[1]
               /\ row.completed = FALSE
               /\ row.created_at >= callTime[c]
               /\ \A t \in todos : t.id = row.id => t.created_at = row.created_at
               /\ \A d \in Requests :
                      (d # c /\ Ok(d) /\ req[d].kind = "create") =>
                          resp[d].todos[1].id # row.id
               /\ \A g \in Requests :
                      GetAfterCreate(c, g) => resp[g] = Json(200, <<row>>)

\* A get has returned the row a create returned.
C3_Witness ==
    \E c, g \in Requests :
        /\ GetAfterCreate(c, g)
        /\ Ok(g)
        /\ resp[g].todos[1].title = "a"

\* Request r's SELECT of all rows is answered in this step.
ListAnswers(r) == pc[r] = "fetch" /\ req[r].kind = "list" /\ Ok(r)'

\* The request whose create returned the row with identifier id, if any.
CreatorsOf(id) ==
    {c \in Requests : Ok(c) /\ req[c].kind = "create" /\ resp[c].todos[1].id = id}

\* C4. List ordering: list returns every stored row exactly once, ordered by
\* created_at descending; so a row whose create was called after another row
\* was inserted is listed before that row.
C4_ListOrdering ==
    [][\A r \in Requests :
        ListAnswers(r) =>
            LET s == resp'[r].todos
            IN /\ Len(s) = Cardinality(todos)
               /\ {s[i] : i \in 1..Len(s)} = todos
               /\ \A i, j \in 1..Len(s) : i < j => s[i].created_at >= s[j].created_at
               /\ \A i, j \in 1..Len(s) :
                      (\E c \in CreatorsOf(s[j].id) : callTime[c] > s[i].created_at)
                          => j < i]_vars

\* A list has returned two rows, the later one first.
C4_Witness ==
    \E r \in Requests :
        /\ Ok(r) /\ req[r].kind = "list" /\ pc[r] # "idle"
        /\ Len(resp[r].todos) = 2
        /\ resp[r].todos[1].created_at > resp[r].todos[2].created_at

\* Request r's first SELECT (get_todo's, or update_todo's read) is answered
\* in this step, by a healthy store.
ReadAnswers(r) ==
    /\ pc[r] = "fetch" /\ req[r].kind \in {"get", "update"}
    /\ pc'[r] # "fetch"
    /\ err'[r] = "none"

\* C5. Not-found is distinct from error: on a healthy store, get and update
\* of an identifier that matches no stored row end with 404, never with 500.
C5_NotFoundIsNotError ==
    [][\A r \in Requests :
        (ReadAnswers(r) /\ \A t \in todos : t.id # req[r].path) =>
            /\ pc'[r] = "done"
            /\ resp'[r].status = 404
            /\ todos' = todos]_vars

\* A get and an update of a well-formed identifier that was never generated
\* have both ended with 404.
C5_Witness ==
    \E g, u \in Requests :
        /\ Done(g) /\ req[g].kind = "get" /\ req[g].path = UnusedUuid
        /\ Done(u) /\ req[u].kind = "update" /\ req[u].path = UnusedUuid
        /\ resp[g].status = 404 /\ resp[u].status = 404

\* Request r's DELETE statement is answered in this step.
DeleteAnswers(r) == pc[r] = "fetch" /\ req[r].kind = "delete" /\ Done(r)'

\* A delete of the same identifier has already been answered.
DeletedBefore(r) ==
    \E d \in Requests :
        d # r /\ Done(d) /\ req[d].kind = "delete" /\ req[d].path = req[r].path

\* The same, and the store executed that delete.
DeletedBeforeByStore(r) ==
    \E d \in Requests :
        /\ d # r /\ Done(d) /\ req[d].kind = "delete" /\ req[d].path = req[r].path
        /\ err[d] = "none"

\* C6, as claimed. Delete is idempotent: every delete is answered "Deleted";
\* a delete of a never-created identifier, and a delete that follows a delete
\* of the same identifier, leave the store as it was.
C6_DeleteIdempotent ==
    [][\A r \in Requests :
        DeleteAnswers(r) =>
            /\ resp'[r] = Text(200, "Deleted")
            /\ (req[r].path = UnusedUuid \/ DeletedBefore(r)) => todos' = todos]_vars

\* C6, amended. The same, for a delete that follows a delete of the same
\* identifier which the store executed (a delete the store failed is
\* answered "Deleted" too and leaves the row for the next one to remove).
C6_DeleteIdempotentOnceExecuted ==
    [][\A r \in Requests :
        DeleteAnswers(r) =>
            /\ resp'[r] = Text(200, "Deleted")
            /\ (req[r].path = UnusedUuid \/ DeletedBeforeByStore(r)) => todos' = todos]_vars

\* Two deletes of the identifier of a stored row were executed and answered
\* "Deleted"; the first removed the row, the second changed nothing.
C6_Witness ==
    \E d, r \in Requests :
        /\ d # r /\ Done(d) /\ Done(r)
        /\ req[d].kind = "delete" /\ req[r].kind = "delete"
        /\ req[d].path = 1 /\ req[r].path = 1
        /\ err[d] = "none" /\ err[r] = "none"
        /\ writes[1] = 1
        /\ resp[d].msg = "Deleted" /\ resp[r].msg = "Deleted"

\* Input the specification calls malformed: a create body with no title or
\* an empty one, a path identifier that is no UUID.
Malformed(q) ==
    \/ q.kind = "create" /\ q.title \in {None, Some("")}
    \/ q.kind \in {"get", "update", "delete"} /\ q.path = BadSegment

\* C7. Malformed input is rejected before persistence: such a request starts
\* no data access and is answered with a 400-class status.
C7_MalformedRejected ==
    \A r \in Requests :
        (pc[r] # "idle" /\ Malformed(req[r])) =>
            /\ calls[r] = 0
            /\ Done(r)
            /\ resp[r].status \in 400..499

C9_FailureMapped ==
    \A r \in Requests :
        (Done(r) /\ err[r] = "store" /\ req[r].kind \in {"list", "create", "get"}) =>
            /\ resp[r].status \in 500..599
            /\ calls[r] = 1

\* C10. Update distinguishes its two failure points: a failed read is
\* answered 500 "database error" and no write is issued; a read that finds no
\* row is answered 404; a failed write is answered 500 "Update failed";
\* otherwise the updated row is returned with 200.
C10_UpdateFailurePoints ==
    [][\A r \in Requests :
        /\ (pc[r] = "fetch" /\ req[r].kind = "update" /\ pc'[r] # "fetch") =>
              IF err'[r] # "none"
              THEN /\ resp'[r] = Text(500, "database error")
                   /\ pc'[r] = "done" /\ calls'[r] = 1 /\ todos' = todos
              ELSE IF \A t \in todos : t.id # req[r].path
              THEN resp'[r].status = 404 /\ pc'[r] = "done" /\ calls'[r] = 1
              ELSE pc'[r] \in {"write", "merged"} /\ calls'[r] = 2
        /\ (pc[r] = "write" /\ pc'[r] # "write") =>
              /\ pc'[r] = "done"
              /\ IF err'[r] # "none"
                 THEN resp'[r] = Text(500, "Update failed") /\ todos' = todos
                 ELSE resp'[r] = Json(200, <<Row(todos', req[r].path)>>)]_vars

\* One update has failed on its read and another on its write.
C10_Witness ==
    \E u, v \in Requests :
        /\ Done(u) /\ IsUpdate(u) /\ err[u] = "store" /\ calls[u] = 1
        /\ resp[u] = Text(500, "database error")
        /\ Done(v) /\ IsUpdate(v) /\ err[v] = "store" /\ calls[v] = 2
        /\ resp[v] = Text(500, "Update failed")

\* C11. Delete suppresses store errors: when the store fails the DELETE, the
\* handler still answers 200 "Deleted", and the relation is left as it was
\* (the target row, if it was stored, is still stored).
C11_DeleteSuppressesErrors ==
    [][\A r \in Requests :
        (pc[r] = "fetch" /\ req[r].kind = "delete" /\ err'[r] = "store") =>
            /\ pc'[r] = "done"
            /\ resp'[r] = Text(200, "Deleted")
            /\ todos' = todos]_vars

\* A delete of a stored row was failed by the store: it was answered
\* "Deleted" and the row is still there.
C11_Witness ==
    \E r \in Requests :
        /\ Done(r) /\ req[r].kind = "delete" /\ err[r] = "store"
        /\ resp[r] = Text(200, "Deleted")
        /\ \E t \in todos : t.id = req[r].path

C13_NoConnectionLeak ==
    /\ inUse = Cardinality({r \in Requests : Executing(r)})
    /\ (\A r \in Requests : pc[r] \in {"idle", "done"}) => inUse = 0

\* Every request has finished, one on a store failure, one on not-found, and
\* no connection is checked out.
C13_Witness ==
    /\ \A r \in Requests : Done(r)
    /\ \E a, b \in Requests :
        /\ err[a] = "store"
        /\ err[b] = "none" /\ resp[b].status = 404
    /\ inUse = 0

\* The identifier and creation time of each stored row.
Keys(rows) == {[id |-> t.id, created_at |-> t.created_at] : t \in rows}

\* C14. Update leaves id and created_at unchanged: under any interleaving,
\* no step changes the created_at of a row that stays stored, and an UPDATE
\* leaves the identifiers and creation times of all rows as they were and
\* returns its row with the identifier asked for and the creation time
\* stored; only title and completed can differ.
C14_UpdateKeepsIdAndCreatedAt ==
    [][/\ \A t \in todos : \A u \in todos' :
            u.id = t.id => u.created_at = t.created_at
       /\ \A r \in Requests : UpdateWrites(r) =>
            /\ Keys(todos') = Keys(todos)
            /\ resp'[r].todos[1].id = req[r].path
            /\ resp'[r].todos[1].created_at = Row(todos, req[r].path).created_at]_vars

\* Two updates of the row created at instant 1 have both written it, title
\* and completed: it is still row 1, created at instant 1.
C14_Witness ==
    \E a, b \in Requests :
        /\ a # b /\ IsUpdate(a) /\ IsUpdate(b) /\ Ok(a) /\ Ok(b)
        /\ req[a].path = 1 /\ req[b].path = 1
        /\ \E t \in todos :
            t.id = 1 /\ t.created_at = 1 /\ t.title = "c" /\ t.completed

\* A delete of identifier id has been executed by the store and answered.
Deleted(id) ==
    \E d \in Requests :
        Done(d) /\ req[d].kind = "delete" /\ req[d].path = id /\ err[d] = "none"

\* C15. Deletion is physical removal of exactly the target: a delete(id) the
\* store executes removes the row with that identifier and leaves every other
\* row as it was; from then on a get(id) the store answers is not-found, and
\* a list does not contain that identifier.
C15_DeleteRemovesExactlyTarget ==
    [][\A r \in Requests :
        /\ (DeleteAnswers(r) /\ err'[r] = "none") =>
              todos' = {t \in todos : t.id # req[r].path}
        /\ (ReadAnswers(r) /\ req[r].kind = "get" /\ Deleted(req[r].path)) =>
              resp'[r].status = 404
        /\ ListAnswers(r) =>
              \A i \in 1..Len(resp'[r].todos) : ~Deleted(resp'[r].todos[i].id)]_vars

\* The stored row 1 was deleted, and a get of it was then answered not-found.
C15_Witness ==
    \E g \in Requests :
        /\ Deleted(1) /\ writes[1] = 1
        /\ Done(g) /\ req[g].kind = "get" /\ req[g].path = 1
        /\ err[g] = "none" /\ resp[g].status = 404

\* C16. Update's write is conditional on its read: update issues its UPDATE
\* only after its read found a row; when the read finds none or fails, the
\* request ends there, no write is issued and the relation is unchanged.
\* Every other handler runs at most one statement per request.
C16_WriteConditionalOnRead ==
    /\ [](\A r \in Requests :
            /\ calls[r] <= (IF req[r].kind = "update" THEN 2 ELSE 1)
            /\ (calls[r] = 2 \/ pc[r] \in {"merged", "write"} \/ writeVer[r] > 0) =>
                  req[r].kind = "update" /\ existing[r] # None)
    /\ [][\A r \in Requests :
            (pc[r] = "fetch" /\ req[r].kind = "update" /\ pc'[r] = "done") =>
                /\ \/ err'[r] = "store"
                   \/ \A t \in todos : t.id # req[r].path
                /\ calls'[r] = 1 /\ writeVer'[r] = 0
                /\ todos' = todos]_vars

\* One update found its row and wrote it in a second statement; another found
\* none and ended after its read.
C16_Witness ==
    \E u, v \in Requests :
        /\ IsUpdate(u) /\ Ok(u) /\ calls[u] = 2 /\ existing[u] # None
        /\ IsUpdate(v) /\ Done(v) /\ resp[v].status = 404
        /\ calls[v] = 1 /\ existing[v] = None

\* C17. Fail-fast startup: when DATABASE_URL is absent or the store is
\* unreachable as the pool is built, the process ends before it binds the
\* listener or serves a request; no request is handled unless the process is
\* serving on a pool it built, and the pool, once built, is never replaced.
C17_FailFastStartup ==
    /\ [](/\ (~main.databaseUrl \/ ~main.reachable) =>
                main.at \in {"start", "panicked"} /\ main.pool = None
          /\ main.at \in {"pool", "bound", "serving"} => main.pool # None
          /\ \A r \in Requests :
                pc[r] # "idle" => main.at = "serving" /\ main.pool # None)
    /\ [][/\ main.at # "panicked"
          /\ main.pool # None => main'.pool = main.pool]_vars

\* The store was unreachable when get_db_pool connected: the process has
\* ended, with no pool and no request handled.
C17_Witness ==
    /\ main.at = "panicked" /\ main.databaseUrl /\ ~main.reachable
    /\ main.pool = None
    /\ \A r \in Requests : pc[r] = "idle"

\* C18. Update racing with delete: when the row update's read found has been
\* deleted by the time its UPDATE runs, on a healthy store, the UPDATE
\* matches no row, update answers 500 "Update failed" (not 404), and the
\* deleted row is not created again.
C18_UpdateRacingDelete ==
    [][\A r \in Requests :
        (/\ pc[r] = "write" /\ pc'[r] # "write" /\ err'[r] # "store"
         /\ \A t \in todos : t.id # req[r].path) =>
            /\ pc'[r] = "done"
            /\ resp'[r] = Text(500, "Update failed")
            /\ todos' = todos]_vars

\* An update read its row, a delete the store executed removed it, and the
\* update's UPDATE then matched no row: 500 "Update failed", the row gone.
C18_Witness ==
    \E u, d \in Requests :
        /\ IsUpdate(u) /\ Done(u) /\ existing[u] # None /\ err[u] = "norow"
        /\ resp[u] = Text(500, "Update failed")
        /\ Done(d) /\ req[d].kind = "delete" /\ req[d].path = req[u].path
        /\ err[d] = "none"
        /\ \A t \in todos : t.id # req[u].path

\* The identifiers stored.
Ids(rows) == {t.id : t \in rows}

\* C19. Only create and delete change which rows exist: the set of stored
\* identifiers grows only by a create, by exactly one identifier not stored
\* before, and shrinks only by a delete, by at most its target; list, get and
\* update never add or remove a row, list and get leave the whole relation
\* unchanged, and no two stored rows share an identifier.
C19_OnlyCreateAndDeleteChangeIds ==
    /\ [](Cardinality(Ids(todos)) = Cardinality(todos))
    /\ [][/\ Ids(todos') # Ids(todos) =>
                \E r \in Requests :
                    \/ /\ pc[r] = "fetch" /\ req[r].kind = "create" /\ Ok(r)'
                       /\ \E id \in Ids(todos') \ Ids(todos) :
                            Ids(todos') = Ids(todos) \cup {id}
                    \/ /\ DeleteAnswers(r)
                       /\ Ids(todos') = Ids(todos) \ {req[r].path}
          /\ \A r \in Requests :
                /\ (pc'[r] # pc[r] /\ req'[r].kind \in {"list", "get"}) =>
                      todos' = todos
                /\ (pc'[r] # pc[r] /\ req'[r].kind = "update") =>
                      Ids(todos') = Ids(todos)]_vars

\* A create has added a second row, an update has rewritten the first, and
\* the two identifiers stored are the initial one and the created one.
C19_Witness ==
    \E c, u \in Requests :
        /\ Ok(c) /\ req[c].kind = "create"
        /\ Ok(u) /\ IsUpdate(u) /\ req[u].title # None
        /\ Ids(todos) = {req[u].path, resp[c].todos[1].id}
        /\ Cardinality(todos) = 2

\* C20. No hold-and-wait on the pool: every request holds at most one
\* connection, and only while a query of it is executing; update gives the
\* connection of its read back before it takes one for its UPDATE, so a
\* request that waits holds none. Hence whenever a request waits for a
\* connection, one is free to take or some request is executing on one and
\* will give it back: the requests in flight can always take a step.
C20_NoHoldAndWait ==
    /\ [](/\ inUse = Cardinality({r \in Requests : Executing(r)})
          /\ (\E w \in Requests : Waiting(w)) =>
                \/ inUse < MaxConnections
                \/ \E p \in Requests : Executing(p)
          /\ (\E r \in Requests : pc[r] \notin {"idle", "done"}) =>
                ENABLED (\E r \in Requests : Progress(r)))
    /\ [][\A r \in Requests :
            (pc[r] = "fetch" /\ req[r].kind = "update") =>
                /\ pc'[r] = "merged" => inUse' = inUse - 1
                /\ pc'[r] = "write" => inUse' = inUse]_vars

\* All 5 connections are checked out by executing queries while an update
\* that has given its read's connection back waits for one for its UPDATE.
C20_Witness ==
    /\ inUse = MaxConnections
    /\ Cardinality({r \in Requests : Executing(r)}) = MaxConnections
    /\ \E u \in Requests : pc[u] = "merged" /\ existing[u] # None

====
